---- MODULE Spec2Model ----
(***************************************************************************)
(* Model of the intent-driven dispatch pipeline of the MVK SDK assistant:  *)
(* ChatOrchestrator.process_query (classify -> route -> synthesize) and    *)
(* the three specialists it calls (SDKAgent, FrameworkRouter /             *)
(* FrameworkSpecialist, CodeGenerator).  Two smaller machines share the   *)
(* module: the renderer followed by the section extraction (RoundTripSpec) *)
(* and the chat session of app.py with its authentication gate (ChatSpec). *)
(*                                                                         *)
(* Text is a sequence of tokens (strings).  A Python substring test or     *)
(* split on a marker is the same test or split on the marker's token       *)
(* sequence.  A Python exception is a record [type, msg]; an operator      *)
(* that may raise returns [raised, exc, value].                            *)
(***************************************************************************)
EXTENDS Integers, Sequences, FiniteSets, Bags, TLC

VARIABLES pc, query, llmOut, clsFailed, intent, blk, running, responses,
          calls, settled, codeArgs, codePrompt, result, escaped, seen,
          chat, rt

\* the variables of one process_query request
coreVars == <<pc, query, llmOut, clsFailed, intent, blk, running, responses,
              calls, settled, codeArgs, codePrompt, result, escaped, seen>>

vars == <<pc, query, llmOut, clsFailed, intent, blk, running, responses,
          calls, settled, codeArgs, codePrompt, result, escaped, seen,
          chat, rt>>

(***************************************************************************)
(* Bounds                                                                  *)
(***************************************************************************)
\* largest number of passages the Retriever returns in the model
MaxDocs == 4
\* largest number of hits the web search returns in the model
MaxHits == 4

(***************************************************************************)
(* Text helpers: Python str operations on token sequences                  *)
(***************************************************************************)
NoText == <<>>

Whitespace == {"\n", " "}

\* sub in text, as the index of the first occurrence (0 when absent)
Find(text, sub) ==
  LET n == Len(sub)
      idx == {i \in 1..(Len(text) - n + 1) : SubSeq(text, i, i + n - 1) = sub}
  IN IF idx = {} THEN 0 ELSE CHOOSE i \in idx : \A j \in idx : i <= j

Contains(text, sub) == Find(text, sub) # 0

\* text.split(sep): the list of parts between non-overlapping occurrences
RECURSIVE Split(_, _)
Split(text, sep) ==
  LET i == Find(text, sep)
  IN IF i = 0 THEN <<text>>
     ELSE <<SubSeq(text, 1, i - 1)>>
            \o Split(SubSeq(text, i + Len(sep), Len(text)), sep)

\* text.strip()
RECURSIVE LStrip(_)
LStrip(text) ==
  IF text # <<>> /\ Head(text) \in Whitespace THEN LStrip(Tail(text)) ELSE text

RECURSIVE RStrip(_)
RStrip(text) ==
  IF text # <<>> /\ text[Len(text)] \in Whitespace
  THEN RStrip(SubSeq(text, 1, Len(text) - 1)) ELSE text

Strip(text) == RStrip(LStrip(text))

(***************************************************************************)
(* Python values                                                           *)
(***************************************************************************)
\* a JSON scalar: t is its type, s its spelling
JBool(b) == [t |-> "bool", s |-> IF b THEN "true" ELSE "false"]
JStr(s)  == [t |-> "str", s |-> s]
JNum(s)  == [t |-> "num", s |-> s]
JNull    == [t |-> "null", s |-> "null"]

\* bool(v) of a scalar
Truthy(v) ==
  CASE v.t = "bool" -> v.s = "true"
    [] v.t = "str"  -> v.s # ""
    [] v.t = "num"  -> v.s # "0"
    [] OTHER        -> FALSE

\* an Optional[str] argument
None == [none |-> TRUE, text |-> NoText]
Some(text) == [none |-> FALSE, text |-> text]

\* a raised exception, a returned value
Exc(type, msg) == [type |-> type, msg |-> msg]
NoExc == Exc("", "")
Raise(type, msg, dflt) == [raised |-> TRUE, exc |-> Exc(type, msg), value |-> dflt]
Return(v) == [raised |-> FALSE, exc |-> NoExc, value |-> v]

\* d.get(k, dflt) on a dict
Get(d, k, dflt) == IF k \in DOMAIN d THEN d[k] ELSE dflt

EmptyDict == [k \in {} |-> JNull]

(***************************************************************************)
(* json.loads on the tokens of a classifier response                       *)
(***************************************************************************)
FlagKeys == {"needs_sdk", "needs_framework", "needs_code"}

\* the key/value tokens a JSON object of the classifier is made of
PairTable ==
  [tok \in {"needs_sdk:true", "needs_sdk:false",
            "needs_framework:true", "needs_framework:false",
            "needs_code:true", "needs_code:false",
            "framework_name:null", "framework_name:'langchain'",
            "framework_name:'LangChain'", "framework_name:'not-a-framework'",
            "framework_name:' langchain '",
            "framework_name:''", "framework_name:42"} |->
     CASE tok = "needs_sdk:true"        -> [k |-> "needs_sdk", v |-> JBool(TRUE)]
       [] tok = "needs_sdk:false"       -> [k |-> "needs_sdk", v |-> JBool(FALSE)]
       [] tok = "needs_framework:true"  -> [k |-> "needs_framework", v |-> JBool(TRUE)]
       [] tok = "needs_framework:false" -> [k |-> "needs_framework", v |-> JBool(FALSE)]
       [] tok = "needs_code:true"       -> [k |-> "needs_code", v |-> JBool(TRUE)]
       [] tok = "needs_code:false"      -> [k |-> "needs_code", v |-> JBool(FALSE)]
       [] tok = "framework_name:null"   -> [k |-> "framework_name", v |-> JNull]
       [] tok = "framework_name:'langchain'"
            -> [k |-> "framework_name", v |-> JStr("langchain")]
       [] tok = "framework_name:'LangChain'"
            -> [k |-> "framework_name", v |-> JStr("LangChain")]
       [] tok = "framework_name:'not-a-framework'"
            -> [k |-> "framework_name", v |-> JStr("not-a-framework")]
       [] tok = "framework_name:' langchain '"
            -> [k |-> "framework_name", v |-> JStr(" langchain ")]
       [] tok = "framework_name:''"     -> [k |-> "framework_name", v |-> JStr("")]
       [] OTHER                         -> [k |-> "framework_name", v |-> JNum("42")]]

\* a parsed JSON document: an object (dict) or an array (list)
PyDict(d) == [kind |-> "dict", d |-> d]
PyList    == [kind |-> "list", d |-> EmptyDict]

\* json.loads(text): raises JSONDecodeError unless text is one JSON document
json_loads(text) ==
  LET n == Len(text)
      pairs == SubSeq(text, 2, n - 1)
      keys == {PairTable[pairs[i]].k : i \in 1..Len(pairs)}
      last(k) == CHOOSE i \in 1..Len(pairs) :
                   /\ PairTable[pairs[i]].k = k
                   /\ \A j \in 1..Len(pairs) : PairTable[pairs[j]].k = k => j <= i
  IN IF text = <<"[", "]">> THEN Return(PyList)
     ELSE IF /\ n >= 2
             /\ text[1] = "{"
             /\ text[n] = "}"
             /\ \A i \in 1..Len(pairs) : pairs[i] \in DOMAIN PairTable
          THEN Return(PyDict([k \in keys |-> PairTable[pairs[last(k)]].v]))
          ELSE Raise("JSONDecodeError", "Expecting value", PyList)

(***************************************************************************)
(* ChatOrchestrator._classify_intent                                       *)
(***************************************************************************)
\* the token "FENCE" is the markdown code fence (three backquotes)
FenceJson == <<"FENCE", "json">>
Fence == <<"FENCE">>

\* a fallback that requests no specialist
DefaultIntent_NoSdk ==
  PyDict([needs_sdk |-> JBool(FALSE), needs_framework |-> JBool(FALSE),
          needs_code |-> JBool(FALSE), framework_name |-> JNull])

\* the fallback of the except branch
DefaultIntent ==
  PyDict([needs_sdk |-> JBool(TRUE), needs_framework |-> JBool(FALSE),
          needs_code |-> JBool(FALSE), framework_name |-> JNull])

\* the text handed to json.loads: the response stripped of one code fence
StripFence(content) ==
  LET s == Strip(content)
  IN IF Contains(s, FenceJson)
     THEN Strip(Split(Split(s, FenceJson)[2], Fence)[1])
     ELSE IF Contains(s, Fence)
          THEN Strip(Split(Split(s, Fence)[2], Fence)[1])
          ELSE s

\* llm is the outcome of self.llm.invoke: it raised, or it returned content
ClassifyIntent(llm) ==
  IF llm.raised THEN DefaultIntent
  ELSE LET parsed == json_loads(StripFence(llm.value))
       IN IF parsed.raised THEN DefaultIntent ELSE parsed.value

(***************************************************************************)
(* Capabilities: what a call to an external collaborator can produce       *)
(***************************************************************************)
\* the contents a Generator call returns in the model
AnswerTexts == {<<"Call", "mvk.instrument()">>, NoText}

\* an LLM call raises or returns one of texts
LLMOutcomes(texts) ==
  {Raise("APIError", "llm unavailable", NoText)} \cup {Return(t) : t \in texts}

\* the passages of a similarity search, most relevant first
DocList(n) == [i \in 1..n |-> [page |-> ToString(10 - i)]]

RetrieverOutcomes ==
  {Raise("ChromaError", "index unavailable", <<>>)}
    \cup {Return(DocList(n)) : n \in 0..MaxDocs}

\* the hits of a web search, best rank first
HitList(n) ==
  [i \in 1..n |-> [title |-> ToString(i), url |-> ToString(100 + i), score |-> ToString(10 - i)]]

TavilyClientOutcomes ==
  {Raise("UsageLimitExceededError", "quota exceeded", <<>>)}
    \cup {Return(HitList(n)) : n \in 0..MaxHits}

\* calls made: a bag of capability names
NoCalls == EmptyBag
CallOf(name) == SetToBag({name})

(***************************************************************************)
(* SDKAgent.query                                                          *)
(***************************************************************************)
NotIndexedMsg == <<"Documentation not yet indexed. Please wait for indexing to complete.">>
NoInfoMsg == <<"I couldn't find relevant information in the MVK SDK documentation for this question.">>
SdkErrorMsg(e) == <<"Error querying SDK documentation:", e.msg>>

\* SDKAgent._extract_sources
extract_sources(docs) == [i \in 1..Len(docs) |-> [page |-> docs[i].page]]

\* a query that hands an empty passage list to the generator
SDKAgent_query_NoEmptyCheck(env) ==
  IF ~env.indexed
  THEN [result |-> [answer |-> NotIndexedMsg, sources |-> <<>>, success |-> FALSE],
        made |-> CallOf("is_indexed")]
  ELSE IF env.search.raised
  THEN [result |-> [answer |-> SdkErrorMsg(env.search.exc), sources |-> <<>>,
                    success |-> FALSE],
        made |-> CallOf("is_indexed") (+) CallOf("retriever")]
  ELSE IF env.gen.raised
  THEN [result |-> [answer |-> SdkErrorMsg(env.gen.exc), sources |-> <<>>,
                    success |-> FALSE],
        made |-> CallOf("is_indexed") (+) CallOf("retriever") (+) CallOf("gen_sdk")]
  ELSE [result |-> [answer |-> env.gen.value,
                    sources |-> extract_sources(env.search.value),
                    success |-> TRUE],
        made |-> CallOf("is_indexed") (+) CallOf("retriever") (+) CallOf("gen_sdk")]

\* a query that searches before it looks at the readiness of the index
SDKAgent_query_SearchFirst(env) ==
  IF ~env.indexed
  THEN [result |-> [answer |-> NotIndexedMsg, sources |-> <<>>, success |-> FALSE],
        made |-> CallOf("is_indexed") (+) CallOf("retriever")]
  ELSE IF env.search.raised
  THEN [result |-> [answer |-> SdkErrorMsg(env.search.exc), sources |-> <<>>,
                    success |-> FALSE],
        made |-> CallOf("is_indexed") (+) CallOf("retriever")]
  ELSE IF env.search.value = <<>>
  THEN [result |-> [answer |-> NoInfoMsg, sources |-> <<>>, success |-> FALSE],
        made |-> CallOf("is_indexed") (+) CallOf("retriever")]
  ELSE IF env.gen.raised
  THEN [result |-> [answer |-> SdkErrorMsg(env.gen.exc), sources |-> <<>>,
                    success |-> FALSE],
        made |-> CallOf("is_indexed") (+) CallOf("retriever") (+) CallOf("gen_sdk")]
  ELSE [result |-> [answer |-> env.gen.value,
                    sources |-> extract_sources(env.search.value),
                    success |-> TRUE],
        made |-> CallOf("is_indexed") (+) CallOf("retriever") (+) CallOf("gen_sdk")]

\* env: indexed is is_indexed(), search the outcome of chromadb_manager.search,
\* gen the outcome of self.llm.invoke
SDKAgent_query(env) ==
  IF ~env.indexed
  THEN [result |-> [answer |-> NotIndexedMsg, sources |-> <<>>, success |-> FALSE],
        made |-> CallOf("is_indexed")]
  ELSE IF env.search.raised
  THEN [result |-> [answer |-> SdkErrorMsg(env.search.exc), sources |-> <<>>,
                    success |-> FALSE],
        made |-> CallOf("is_indexed") (+) CallOf("retriever")]
  ELSE IF env.search.value = <<>>
  THEN [result |-> [answer |-> NoInfoMsg, sources |-> <<>>, success |-> FALSE],
        made |-> CallOf("is_indexed") (+) CallOf("retriever")]
  ELSE IF env.gen.raised
  THEN [result |-> [answer |-> SdkErrorMsg(env.gen.exc), sources |-> <<>>,
                    success |-> FALSE],
        made |-> CallOf("is_indexed") (+) CallOf("retriever") (+) CallOf("gen_sdk")]
  ELSE [result |-> [answer |-> env.gen.value,
                    sources |-> extract_sources(env.search.value),
                    success |-> TRUE],
        made |-> CallOf("is_indexed") (+) CallOf("retriever") (+) CallOf("gen_sdk")]

\* what self.vectorstore._collection.count() can produce
CollectionCounts ==
  {Raise("ChromaError", "index unavailable", 0), Return(0), Return(MaxDocs)}

\* ChromaDBManager.is_indexed: count > 0, False when the count raises
is_indexed(count) == IF count.raised THEN FALSE ELSE count.value > 0

SdkEnvs ==
  [indexed : {is_indexed(c) : c \in CollectionCounts},
   search : RetrieverOutcomes, gen : LLMOutcomes(AnswerTexts)]

(***************************************************************************)
(* TavilySearch.search, FrameworkSpecialist.query, FrameworkRouter.query   *)
(***************************************************************************)
\* a search that reports a failure of the client as a hit
tavily_search_ErrorAsHit(client) ==
  IF client.raised
  THEN <<[title |-> "error", url |-> client.exc.msg, score |-> "0"]>>
  ELSE client.value

\* TavilySearch.search: a failure of the client becomes the empty list
tavily_search(client) == IF client.raised THEN <<>> ELSE client.value

NoResultsMsg(name) ==
  <<"Couldn't find information about", name, ". Web search quota may be exceeded.">>
FwErrorMsg(name, e) == <<"Error querying", name, "information:", e.msg>>

\* FrameworkSpecialist(name).query
FrameworkSpecialist_query(name, env) ==
  LET search_results == tavily_search(env.client)
  IN IF search_results = <<>>
     THEN [result |-> [answer |-> NoResultsMsg(name), sources |-> <<>>,
                       success |-> FALSE],
           made |-> CallOf("websearch")]
     ELSE IF env.gen.raised
     THEN [result |-> [answer |-> FwErrorMsg(name, env.gen.exc), sources |-> <<>>,
                       framework |-> name, success |-> FALSE],
           made |-> CallOf("websearch") (+) CallOf("gen_framework")]
     ELSE [result |-> [answer |-> env.gen.value, sources |-> search_results,
                       framework |-> name, success |-> TRUE],
           made |-> CallOf("websearch") (+) CallOf("gen_framework")]

FwEnvs == [client : TavilyClientOutcomes, gen : LLMOutcomes(AnswerTexts)]

\* the keys of FrameworkRouter.specialists
Registry == {"langchain", "llamaindex", "crewai", "autogen", "haystack", "generic"}

\* str.lower()
Lower(s) == IF s = "LangChain" THEN "langchain" ELSE s

\* (framework or "generic").lower(): raises on a value that is not a str
NormalizeFramework(framework) ==
  IF ~Truthy(framework) THEN Return("generic")
  ELSE IF framework.t = "str" THEN Return(Lower(framework.s))
  ELSE Raise("AttributeError", "object has no attribute 'lower'", "")

\* self.specialists.get(framework, self.specialists["generic"])
SelectSpecialist(framework) ==
  IF framework \in Registry THEN framework ELSE "generic"

(***************************************************************************)
(* CodeGenerator: _extract_code_block, _extract_section, _parse_response,  *)
(* generate                                                                *)
(***************************************************************************)
FencePython == <<"FENCE", "python">>

\* "\n".join(lines)
RECURSIVE JoinLines(_)
JoinLines(lines) ==
  IF lines = <<>> THEN NoText
  ELSE IF Len(lines) = 1 THEN lines[1]
  ELSE lines[1] \o <<"\n">> \o JoinLines(Tail(lines))

\* lines[0].strip().lower() in ["python", "py"]
IsLanguageTag(line) ==
  Strip(line) \in {<<"python">>, <<"py">>, <<"Python">>}

\* CodeGenerator._extract_code_block
extract_code_block(text) ==
  IF Contains(text, FencePython)
  THEN Strip(Split(Split(text, FencePython)[2], Fence)[1])
  ELSE IF Contains(text, Fence) /\ Len(Split(text, Fence)) > 2
  THEN LET code == Strip(Split(text, Fence)[2])
           lines == Split(code, <<"\n">>)
       IN IF IsLanguageTag(lines[1]) THEN JoinLines(Tail(lines)) ELSE code
  ELSE Strip(text)

\* the three spellings of a section label, in the order they are tried
Markers(section_name) ==
  << <<"**", section_name, ":", "**">>,
     <<"**", section_name, "**", ":">>,
     <<section_name, ":">> >>

\* the texts that end a section, in the order they are tried
StopMarkers ==
  << <<"**", "Explanation">>, <<"**", "Estimated Cost">>, <<"**", "Gotchas">>,
     <<"**">>, <<"\n", "\n", "##">> >>

\* a section that runs to the end of the text
CutAtStop_NoCut(section_text) == section_text

\* the inner loop: cut at the first stop marker of the list that occurs
CutAtStop(section_text) ==
  LET present == {i \in 1..Len(StopMarkers) : Contains(section_text, StopMarkers[i])}
  IN IF present = {} THEN section_text
     ELSE LET i == CHOOSE i \in present : \A j \in present : i <= j
          IN Split(section_text, StopMarkers[i])[1]

\* CodeGenerator._extract_section
extract_section(text, section_name) ==
  LET ms == Markers(section_name)
      present == {i \in 1..Len(ms) : Contains(text, ms[i])}
  IN IF present = {} THEN NoText
     ELSE LET i == CHOOSE i \in present : \A j \in present : i <= j
          IN Strip(CutAtStop(Split(text, ms[i])[2]))

\* CodeGenerator._parse_response
parse_response(response) ==
  [code          |-> extract_code_block(response),
   explanation   |-> extract_section(response, "Explanation"),
   cost_estimate |-> extract_section(response, "Estimated Cost"),
   gotchas       |-> extract_section(response, "Gotchas")]

NoSdkContext == <<"No specific SDK context provided.">>
NoFrameworkContext == <<"No specific framework context provided.">>

\* sdk_context or "No specific SDK context provided."
OrElse(opt, dflt) == IF opt.none \/ opt.text = NoText THEN dflt ELSE opt.text

\* CODE_GENERATOR_PROMPT.format(...): the values substituted into the prompt
CodePrompt(user_query, sdk_context, framework_context) ==
  [user_query        |-> user_query,
   sdk_context       |-> OrElse(sdk_context, NoSdkContext),
   framework_context |-> OrElse(framework_context, NoFrameworkContext)]

CodeErrorMsg(e) == <<"# Error generating code:", e.msg>>

\* a generate that reports the failure in the explanation field
CodeGenerator_generate_ErrorExplained(gen) ==
  IF gen.raised
  THEN [result |-> [code |-> NoText, explanation |-> CodeErrorMsg(gen.exc),
                    cost_estimate |-> NoText, gotchas |-> NoText,
                    success |-> FALSE],
        made |-> CallOf("gen_code")]
  ELSE [result |-> [code          |-> parse_response(gen.value).code,
                    explanation   |-> parse_response(gen.value).explanation,
                    cost_estimate |-> parse_response(gen.value).cost_estimate,
                    gotchas       |-> parse_response(gen.value).gotchas,
                    success       |-> TRUE],
        made |-> CallOf("gen_code")]

\* CodeGenerator.generate; gen is the outcome of self.llm.invoke
CodeGenerator_generate(gen) ==
  IF gen.raised
  THEN [result |-> [code |-> CodeErrorMsg(gen.exc), explanation |-> NoText,
                    cost_estimate |-> NoText, gotchas |-> NoText,
                    success |-> FALSE],
        made |-> CallOf("gen_code")]
  ELSE [result |-> [code          |-> parse_response(gen.value).code,
                    explanation   |-> parse_response(gen.value).explanation,
                    cost_estimate |-> parse_response(gen.value).cost_estimate,
                    gotchas       |-> parse_response(gen.value).gotchas,
                    success       |-> TRUE],
        made |-> CallOf("gen_code")]

\* the contents the Generator returns to the code generator in the model
CodeTexts ==
  { <<"FENCE", "python", "\n", "print(1)", "\n", "FENCE", "\n",
      "**", "Explanation", ":", "**", "\n", "Prints one.", "\n",
      "**", "Estimated Cost", ":", "**", "\n", "Free", "\n",
      "**", "Gotchas", ":", "**", "\n", "None.">>,
    <<"Explanation", ":", " ", "nothing to run">>,
    <<"**", "Gotchas", ":", "**", "\n", "Rate limits.", "\n",
      "**", "Estimated Cost", ":", "**", "\n", "Free", "\n",
      "**", "Explanation", ":", "**", "\n", "Prints one.">>,
    <<"**", "Explanation", ":", "**", "\n", "Use", " ", "**", "bold", "**", " ", "text">>,
    <<"FENCE", "\n", "print(1)">>,
    <<"FENCE", "py", "\n", "print(1)", "\n", "FENCE">>,
    <<"Sorry", " ", "no code">>,
    NoText }

(***************************************************************************)
(* ChatOrchestrator: _route_to_agents, _format_code_response,              *)
(* _add_sources, _synthesize_response, process_query                       *)
(***************************************************************************)
Specialists == {"sdk", "framework", "code"}

\* the code block placed before the framework block
RouteOrder_CodeSecond == <<"sdk", "code", "framework">>

\* the framework block placed before the SDK block
RouteOrder_FrameworkFirst == <<"framework", "sdk", "code">>

\* the order of the three if-blocks of _route_to_agents
RouteOrder == <<"sdk", "framework", "code">>

FlagOf(s) ==
  CASE s = "sdk" -> "needs_sdk"
    [] s = "framework" -> "needs_framework"
    [] OTHER -> "needs_code"

\* a missing flag read as True
Requested_DefaultTrue(in, s) == Truthy(Get(in.d, FlagOf(s), JBool(TRUE)))

\* intent.get("needs_...", False), as the if-statement reads it
Requested(in, s) == Truthy(Get(in.d, FlagOf(s), JBool(FALSE)))

\* responses = {}
EmptyResponses == [k \in {} |-> [success |-> FALSE]]

\* responses.get(name, {}).get("answer", "")
AnswerOf(resp, name) ==
  IF name \in DOMAIN resp /\ "answer" \in DOMAIN resp[name]
  THEN resp[name].answer ELSE NoText

\* sdk_context if sdk_context else None
ContextArg(resp, name) ==
  IF AnswerOf(resp, name) # NoText THEN Some(AnswerOf(resp, name)) ELSE None

\* the number of sources _add_sources lists for one agent
MaxSourcesShown == 3

\* a slice that keeps the whole list
Take_All(seq, n) == seq

\* seq[:n]
Take(seq, n) == SubSeq(seq, 1, IF Len(seq) < n THEN Len(seq) ELSE n)

\* ChatOrchestrator._format_code_response
format_code_response(r) ==
  (IF r.code # NoText
     THEN <<"FENCE", "python", "\n">> \o r.code \o <<"\n", "FENCE", "\n", "\n">>
     ELSE NoText)
  \o (IF r.explanation # NoText
        THEN <<"**", "Explanation", ":", "**", "\n">> \o r.explanation \o <<"\n", "\n">>
        ELSE NoText)
  \o (IF r.cost_estimate # NoText
        THEN <<"**", "Estimated Cost", ":", "**", "\n">> \o r.cost_estimate \o <<"\n", "\n">>
        ELSE NoText)
  \o (IF r.gotchas # NoText
        THEN <<"**", "Gotchas", ":", "**", "\n">> \o r.gotchas \o <<"\n", "\n">>
        ELSE NoText)

RECURSIVE SdkSourceLines(_, _)
SdkSourceLines(sources, i) ==
  IF i > Len(sources) THEN NoText
  ELSE <<ToString(i), ".", "Page", sources[i].page, "\n">>
         \o SdkSourceLines(sources, i + 1)

RECURSIVE FwSourceLines(_, _)
FwSourceLines(sources, i) ==
  IF i > Len(sources) THEN NoText
  ELSE <<ToString(i), ".", "[", sources[i].title, "]", "(", sources[i].url, ")", "\n">>
         \o FwSourceLines(sources, i + 1)

\* ChatOrchestrator._add_sources
add_sources(resp) ==
  (IF "sdk" \in DOMAIN resp /\ resp["sdk"].sources # <<>>
     THEN <<"**", "SDK Documentation Sources", ":", "**", "\n">>
            \o SdkSourceLines(Take(resp["sdk"].sources, MaxSourcesShown), 1)
            \o <<"\n">>
     ELSE NoText)
  \o (IF "framework" \in DOMAIN resp /\ resp["framework"].sources # <<>>
        THEN <<"**", "Framework Sources", ":", "**", "\n">>
               \o FwSourceLines(Take(resp["framework"].sources, MaxSourcesShown), 1)
               \o <<"\n">>
        ELSE NoText)

\* str.capitalize(): raises on a value that is not a str
Capitalize(v) ==
  IF v.t # "str"
  THEN Raise("AttributeError", "object has no attribute 'capitalize'", "")
  ELSE Return(CASE v.s \in {"langchain", "LangChain"} -> "Langchain"
                [] v.s = "not-a-framework" -> "Not-a-framework"
                [] v.s = "framework" -> "Framework"
                [] OTHER -> v.s)

Apology == <<"I couldn't process your query. Please try rephrasing.">>

SdkHeader == <<"**", "SDK Agent Response", ":", "**", "\n">>
FwHeader(name) == <<"**", name, "Specialist Response", ":", "**", "\n">>
CodeHeader == <<"**", "Code Generator Response", ":", "**", "\n">>
MultiHeader == <<"**", "Multi-Agent Response", ":", "**", "\n", "\n">>

\* a single response rendered under the multi-agent header
Rendering_WithHeader(resp, name) ==
  MultiHeader
    \o (IF name = "code" THEN format_code_response(resp[name]) ELSE AnswerOf(resp, name))

\* the rendering of one agent's response, as the single-agent branch returns it
Rendering(resp, name) ==
  IF name = "code" THEN format_code_response(resp[name]) ELSE AnswerOf(resp, name)

\* a composition that emits the code generator's block first
synthesize_response_CodeFirst(resp, in) ==
  LET names == DOMAIN resp
      cap == Capitalize(Get(in.d, "framework_name", JStr("framework")))
  IN IF Cardinality(names) = 1
     THEN Return(Rendering(resp, CHOOSE n \in names : TRUE))
     ELSE IF Cardinality(names) > 1
     THEN IF "framework" \in names /\ cap.raised
          THEN Raise(cap.exc.type, cap.exc.msg, NoText)
          ELSE Return(
                 MultiHeader
                 \o (IF "code" \in names
                       THEN CodeHeader \o format_code_response(resp["code"])
                              \o <<"\n", "\n">>
                       ELSE NoText)
                 \o (IF "sdk" \in names
                       THEN SdkHeader \o AnswerOf(resp, "sdk") \o <<"\n", "\n">>
                       ELSE NoText)
                 \o (IF "framework" \in names
                       THEN FwHeader(cap.value) \o AnswerOf(resp, "framework")
                              \o <<"\n", "\n">>
                       ELSE NoText)
                 \o add_sources(resp))
     ELSE Return(Apology)

\* ChatOrchestrator._synthesize_response
synthesize_response(resp, in) ==
  LET names == DOMAIN resp
      cap == Capitalize(Get(in.d, "framework_name", JStr("framework")))
  IN IF Cardinality(names) = 1
     THEN Return(Rendering(resp, CHOOSE n \in names : TRUE))
     ELSE IF Cardinality(names) > 1
     THEN IF "framework" \in names /\ cap.raised
          THEN Raise(cap.exc.type, cap.exc.msg, NoText)
          ELSE Return(
                 MultiHeader
                 \o (IF "sdk" \in names
                       THEN SdkHeader \o AnswerOf(resp, "sdk") \o <<"\n", "\n">>
                       ELSE NoText)
                 \o (IF "framework" \in names
                       THEN FwHeader(cap.value) \o AnswerOf(resp, "framework")
                              \o <<"\n", "\n">>
                       ELSE NoText)
                 \o (IF "code" \in names
                       THEN CodeHeader \o format_code_response(resp["code"])
                              \o <<"\n", "\n">>
                       ELSE NoText)
                 \o add_sources(resp))
     ELSE Return(Apology)

\* the exception types "except Exception" catches
PyExceptions ==
  {"AttributeError", "JSONDecodeError", "APIError", "ChromaError",
   "UsageLimitExceededError"}

\* an except clause that names the Generator's error only
Catches_OnlyAPIError(e) == e.type = "APIError"

\* the except clause of process_query catches e
Catches(e) == e.type \in PyExceptions

OrchestratorErrorMsg(e) ==
  <<"An error occurred:", e.msg, "\n", "\n", "Please try rephrasing your question.">>

\* the dictionary the except branch of process_query returns
ErrorResult(e) ==
  [answer |-> OrchestratorErrorMsg(e), intent |-> PyDict(EmptyDict),
   agent_responses |-> EmptyResponses, success |-> FALSE]

\* a result whose flag is the conjunction of the specialists' flags
OkResult_AllSucceeded(answer, in, resp) ==
  [answer |-> answer, intent |-> in, agent_responses |-> resp,
   success |-> \A s \in DOMAIN resp : resp[s].success]

\* the dictionary the try branch of process_query returns
OkResult(answer, in, resp) ==
  [answer |-> answer, intent |-> in, agent_responses |-> resp, success |-> TRUE]

NoResult ==
  [answer |-> NoText, intent |-> PyDict(EmptyDict),
   agent_responses |-> EmptyResponses, success |-> FALSE]

(***************************************************************************)
(* Inputs                                                                  *)
(***************************************************************************)
Queries == {<<"How", "do", "I", "track", "cost", "?">>, NoText}

NameToks ==
  {"framework_name:null", "framework_name:'langchain'", "framework_name:'LangChain'",
   "framework_name:'not-a-framework'", "framework_name:' langchain '",
   "framework_name:''", "framework_name:42"}

\* JSON objects with all three flags, with and without framework_name
FullDocs ==
  {<<"{", a, b, c, "}">> :
     a \in {"needs_sdk:true", "needs_sdk:false"},
     b \in {"needs_framework:true", "needs_framework:false"},
     c \in {"needs_code:true", "needs_code:false"}}
  \cup
  {<<"{", a, b, c, n, "}">> :
     a \in {"needs_sdk:true", "needs_sdk:false"},
     b \in {"needs_framework:true", "needs_framework:false"},
     c \in {"needs_code:true", "needs_code:false"},
     n \in NameToks}

\* JSON objects that lack a required key
MissingKeyDocs ==
  { <<"{", "}">>,
    <<"{", "needs_sdk:false", "needs_code:true", "}">>,
    <<"{", "needs_framework:true", "framework_name:'langchain'", "}">> }

\* texts json.loads rejects, and a JSON array
BadDocs ==
  { <<"Sure", "!">>,
    <<"{", "needs_sdk:true", "needs_framework:false">>,
    NoText }

Bodies == FullDocs \cup MissingKeyDocs \cup BadDocs \cup {<<"[", "]">>}

Wrappers == 1..8

\* a response of the classifier: a body, bare or inside a code fence
Wrap(w, body) ==
  CASE w = 1 -> body
    [] w = 2 -> <<"\n">> \o body \o <<"\n">>
    [] w = 3 -> <<"FENCE", "json", "\n">> \o body \o <<"\n", "FENCE">>
    [] w = 4 -> <<"FENCE", "json", "\n">> \o body
    [] w = 5 -> <<"FENCE", "\n">> \o body \o <<"\n", "FENCE">>
    [] w = 6 -> <<"FENCE", "\n">> \o body
    [] w = 7 -> <<"Here", " ", "FENCE", "json", "\n">> \o body
                  \o <<"\n", "FENCE", "\n", "Done">>
    [] OTHER -> <<"FENCE", "python", "\n">> \o body \o <<"\n", "FENCE">>

ClassifierResponses == {Wrap(w, b) : w \in Wrappers, b \in Bodies}

(***************************************************************************)
(* State machine of one request                                            *)
(***************************************************************************)
NoLLM == Return(NoText)

\* what the capabilities answered in this request: is_indexed(), the number
\* of passages of the similarity search, the number of hits of the Tavily
\* client, the Generator's answer to the code generator
NothingSeen ==
  [ready |-> "uncalled", passages |-> "uncalled", hits |-> "uncalled",
   codegen |-> [called |-> FALSE, out |-> NoLLM]]

\* the size of a returned list, or that the call raised
Outcome(o) == IF o.raised THEN "raised" ELSE ToString(Len(o.value))
NoCodeArgs == [sdk_context |-> None, framework_context |-> None]
NoCodePrompt ==
  [user_query |-> NoText, sdk_context |-> NoText, framework_context |-> NoText]

\* a key of cl.user_session that was never set
Unset == "unset"

\* the chat session before on_chat_start: received is the list of message
\* contents so far, passed the queries handed to process_query, sent the last
\* reply
NoChat ==
  [started |-> FALSE, config_valid |-> FALSE, auth_state |-> Unset,
   authenticated |-> Unset, username |-> None, received |-> <<>>,
   passed |-> <<>>, sent |-> "nothing"]

NoFields ==
  [code |-> NoText, explanation |-> NoText, cost_estimate |-> NoText,
   gotchas |-> NoText]

\* no code generator result is being rendered
NoRoundTrip ==
  [stage |-> "none", fields |-> NoFields, text |-> NoText, back |-> NoFields]

\* no request has been made
OrchestratorIdle ==
  /\ pc = "idle"
  /\ query = NoText
  /\ llmOut = NoLLM
  /\ clsFailed = FALSE
  /\ intent = PyDict(EmptyDict)
  /\ blk = 1
  /\ running = {}
  /\ responses = EmptyResponses
  /\ calls = NoCalls
  /\ settled = {}
  /\ codeArgs = NoCodeArgs
  /\ codePrompt = NoCodePrompt
  /\ result = NoResult
  /\ escaped = FALSE
  /\ seen = NothingSeen

Init ==
  /\ OrchestratorIdle
  /\ chat = NoChat
  /\ rt = NoRoundTrip

\* an exception e leaves the try block of process_query
Unwind(e) ==
  /\ pc' = "done"
  /\ IF Catches(e)
     THEN result' = ErrorResult(e) /\ escaped' = FALSE
     ELSE result' = NoResult /\ escaped' = TRUE

\* the caller invokes process_query(q)
ProcessQuery(q) ==
  /\ pc = "idle"
  /\ pc' = "classify"
  /\ query' = q
  /\ UNCHANGED <<chat, rt, seen, llmOut, clsFailed, intent, blk, running, responses, calls,
                 settled, codeArgs, codePrompt, result, escaped>>

\* stage 1: _classify_intent runs; llm is the outcome of the Classifier call
Classify(llm) ==
  /\ pc = "classify"
  /\ pc' = "classified"
  /\ llmOut' = llm
  /\ clsFailed' = llm.raised
  /\ intent' = ClassifyIntent(llm)
  /\ calls' = calls (+) CallOf("classifier")
  /\ UNCHANGED <<chat, rt, seen, query, blk, running, responses, settled, codeArgs, codePrompt,
                 result, escaped>>

\* _classify_intent returns to process_query, its locals are gone
ClassifyReturn ==
  /\ pc = "classified"
  /\ pc' = "route"
  /\ llmOut' = NoLLM
  /\ UNCHANGED <<chat, rt, seen, query, clsFailed, intent, blk, running, responses, calls,
                 settled, codeArgs, codePrompt, result, escaped>>

\* _route_to_agents stands before the if-block of specialist s
AtBlock(s) == pc = "route" /\ blk <= Len(RouteOrder) /\ RouteOrder[blk] = s

\* intent.get on a value that is not a dict
RouteIntentError ==
  /\ pc = "route" /\ blk <= Len(RouteOrder)
  /\ intent.kind # "dict"
  /\ Unwind(Exc("AttributeError", "object has no attribute 'get'"))
  /\ UNCHANGED <<chat, rt, seen, query, llmOut, clsFailed, intent, blk, running, responses,
                 calls, settled, codeArgs, codePrompt>>

\* the flag of block s is false or missing
RouteSkip(s) ==
  /\ AtBlock(s)
  /\ intent.kind = "dict"
  /\ ~Requested(intent, s)
  /\ blk' = blk + 1
  /\ UNCHANGED <<chat, rt, seen, pc, query, llmOut, clsFailed, intent, running, responses,
                 calls, settled, codeArgs, codePrompt, result, escaped>>

\* the call of specialist s starts
Begin(s, name) ==
  /\ pc' = "call"
  /\ running' = running \cup {s}
  /\ calls' = calls (+) CallOf(name)
  /\ UNCHANGED <<chat, rt, seen, query, llmOut, clsFailed, intent, blk, responses, settled,
                 result, escaped>>

\* the result of a failed call is not stored
End_DropFailed(s, r) ==
  /\ pc = "call"
  /\ s \in running
  /\ pc' = "route"
  /\ running' = running \ {s}
  /\ settled' = settled \cup {s}
  /\ responses' = IF r.result.success THEN (s :> r.result) @@ responses ELSE responses
  /\ calls' = calls (+) r.made
  /\ blk' = blk + 1
  /\ UNCHANGED <<chat, rt, query, llmOut, clsFailed, intent, codeArgs, codePrompt,
                 result, escaped>>

\* the call of specialist s returns r: responses[s] = r
End(s, r) ==
  /\ pc = "call"
  /\ s \in running
  /\ pc' = "route"
  /\ running' = running \ {s}
  /\ settled' = settled \cup {s}
  /\ responses' = (s :> r.result) @@ responses
  /\ calls' = calls (+) r.made
  /\ blk' = blk + 1
  /\ UNCHANGED <<chat, rt, query, llmOut, clsFailed, intent, codeArgs, codePrompt,
                 result, escaped>>

SdkBegin ==
  /\ AtBlock("sdk")
  /\ intent.kind = "dict"
  /\ Requested(intent, "sdk")
  /\ Begin("sdk", "sdk_agent")
  /\ UNCHANGED <<codeArgs, codePrompt>>

SdkEnd ==
  /\ "sdk" \in running
  /\ \E env \in SdkEnvs :
       /\ End("sdk", SDKAgent_query(env))
       /\ seen' = [seen EXCEPT
                     !.ready = IF env.indexed THEN "ready" ELSE "notready",
                     !.passages = IF BagIn("retriever", SDKAgent_query(env).made)
                                  THEN Outcome(env.search) ELSE "uncalled"]

\* intent.get("framework_name")
FrameworkArg(in) == Get(in.d, "framework_name", JNull)

FwBegin ==
  /\ AtBlock("framework")
  /\ intent.kind = "dict"
  /\ Requested(intent, "framework")
  /\ ~NormalizeFramework(FrameworkArg(intent)).raised
  /\ Begin("framework", "framework_router")
  /\ UNCHANGED <<codeArgs, codePrompt>>

\* framework_router.query raises before it reaches a specialist
FwRouterError ==
  /\ AtBlock("framework")
  /\ intent.kind = "dict"
  /\ Requested(intent, "framework")
  /\ NormalizeFramework(FrameworkArg(intent)).raised
  /\ calls' = calls (+) CallOf("framework_router")
  /\ Unwind(NormalizeFramework(FrameworkArg(intent)).exc)
  /\ UNCHANGED <<chat, rt, seen, query, llmOut, clsFailed, intent, blk, running, responses,
                 settled, codeArgs, codePrompt>>

FwEnd ==
  /\ "framework" \in running
  /\ \E env \in FwEnvs :
       /\ End("framework",
              FrameworkSpecialist_query(
                SelectSpecialist(NormalizeFramework(FrameworkArg(intent)).value), env))
       /\ seen' = [seen EXCEPT !.hits = Outcome(env.client)]

CodeBegin ==
  /\ AtBlock("code")
  /\ intent.kind = "dict"
  /\ Requested(intent, "code")
  /\ codeArgs' = [sdk_context |-> ContextArg(responses, "sdk"),
                  framework_context |-> ContextArg(responses, "framework")]
  /\ codePrompt' = CodePrompt(query, ContextArg(responses, "sdk"),
                              ContextArg(responses, "framework"))
  /\ Begin("code", "code_generator")

CodeEnd ==
  /\ "code" \in running
  /\ \E gen \in LLMOutcomes(CodeTexts) :
       /\ End("code", CodeGenerator_generate(gen))
       /\ seen' = [seen EXCEPT !.codegen = [called |-> TRUE, out |-> gen]]

\* _route_to_agents returns responses
RouteReturn ==
  /\ pc = "route"
  /\ blk > Len(RouteOrder)
  /\ intent.kind = "dict"
  /\ pc' = "synth"
  /\ UNCHANGED <<chat, rt, seen, query, llmOut, clsFailed, intent, blk, running, responses,
                 calls, settled, codeArgs, codePrompt, result, escaped>>

\* stage 3 raises
SynthesizeError ==
  /\ pc = "synth"
  /\ synthesize_response(responses, intent).raised
  /\ Unwind(synthesize_response(responses, intent).exc)
  /\ UNCHANGED <<chat, rt, seen, query, llmOut, clsFailed, intent, blk, running, responses,
                 calls, settled, codeArgs, codePrompt>>

\* stage 3 returns and process_query returns its dictionary
Synthesize ==
  /\ pc = "synth"
  /\ ~synthesize_response(responses, intent).raised
  /\ pc' = "done"
  /\ result' = OkResult(synthesize_response(responses, intent).value,
                        intent, responses)
  /\ UNCHANGED <<chat, rt, seen, query, llmOut, clsFailed, intent, blk, running, responses,
                 calls, settled, codeArgs, codePrompt, escaped>>

Next ==
  \/ \E q \in Queries : ProcessQuery(q)
  \/ \E llm \in LLMOutcomes(ClassifierResponses) : Classify(llm)
  \/ ClassifyReturn
  \/ RouteIntentError
  \/ \E s \in Specialists : RouteSkip(s)
  \/ SdkBegin
  \/ SdkEnd
  \/ FwBegin
  \/ FwRouterError
  \/ FwEnd
  \/ CodeBegin
  \/ CodeEnd
  \/ RouteReturn
  \/ SynthesizeError
  \/ Synthesize

Spec == Init /\ [][Next]_vars

(***************************************************************************)
(* The renderer applied to a code generator result, then the extraction    *)
(* applied to the rendered text                                            *)
(***************************************************************************)
\* the values of a field in the model: trimmed texts that hold no fence, no
\* label and no bold markup
FieldTexts ==
  { NoText,
    <<"Free">>,
    <<"x = 1", "\n", "print(x)">>,
    <<"Intro", "\n", "\n", "##", "Setup">> }

CodeResults ==
  [code : FieldTexts, explanation : FieldTexts, cost_estimate : FieldTexts,
   gotchas : FieldTexts]

RoundTripInit ==
  /\ OrchestratorIdle
  /\ chat = NoChat
  /\ rt \in {[stage |-> "result", fields |-> r, text |-> NoText, back |-> NoFields] :
               r \in CodeResults}

\* ChatOrchestrator._format_code_response(rt.fields)
Render ==
  /\ rt.stage = "result"
  /\ rt' = [rt EXCEPT !.stage = "rendered", !.text = format_code_response(rt.fields)]
  /\ UNCHANGED <<coreVars, chat>>

\* CodeGenerator._parse_response(rt.text)
Extract ==
  /\ rt.stage = "rendered"
  /\ rt' = [rt EXCEPT !.stage = "extracted", !.back = parse_response(rt.text)]
  /\ UNCHANGED <<coreVars, chat>>

RoundTripNext ==
  \/ Render
  \/ Extract

RoundTripSpec == RoundTripInit /\ [][RoundTripNext]_vars

(***************************************************************************)
(* The chat session of app.py: start, main and the handlers it calls.      *)
(* A message content is a sequence of characters.                          *)
(***************************************************************************)
\* largest number of messages of one session in the model
MaxMessages == 4

AUTH_STATE_USERNAME == "awaiting_username"
AUTH_STATE_PASSWORD == "awaiting_password"
AUTH_STATE_AUTHENTICATED == "authenticated"

\* config.AUTH_PASSWORD
AUTH_PASSWORD == <<"m", "@", "1">>

\* the contents of the messages a user sends in the model
Messages ==
  { NoText, <<" ">>, <<"a">>, <<"b", "o">>, <<" ", "b", "o", " ">>,
    AUTH_PASSWORD, <<" ">> \o AUTH_PASSWORD, <<"h", "i", "?">> }

\* what a call of the session manager can do: return, or raise
ManagerOutcomes == {"returned", "raised"}

\* cl.user_session.get("auth_state", AUTH_STATE_USERNAME)
AuthState(c) == IF c.auth_state = Unset THEN AUTH_STATE_USERNAME ELSE c.auth_state

\* a username that passes any non-empty text
ValidUsername_NonEmpty(username) == username # NoText

\* the test of handle_username_input: not (not username or len(username) < 2)
ValidUsername(username) == username # NoText /\ Len(username) >= 2

ChatInit ==
  /\ OrchestratorIdle
  /\ rt = NoRoundTrip
  /\ chat = NoChat

\* on_chat_start; valid is config.is_valid()
Start(valid) ==
  /\ ~chat.started
  /\ chat' = IF valid
             THEN [chat EXCEPT !.started = TRUE, !.config_valid = TRUE,
                               !.auth_state = AUTH_STATE_USERNAME,
                               !.authenticated = "False",
                               !.sent = "username_prompt"]
             ELSE [chat EXCEPT !.started = TRUE, !.config_valid = FALSE,
                               !.sent = "config_error"]
  /\ UNCHANGED <<coreVars, rt>>

\* main receives message m in a session whose state is st
Receives(m, st) ==
  /\ chat.started
  /\ Len(chat.received) < MaxMessages
  /\ AuthState(chat) = st

\* main -> handle_username_input(m.strip()); created is the outcome of
\* session_manager.create_session
UsernameInput(m, created) ==
  /\ Receives(m, AUTH_STATE_USERNAME)
  /\ chat' = IF ~ValidUsername(Strip(m))
             THEN [chat EXCEPT !.received = Append(@, m),
                               !.sent = "username_prompt"]
             ELSE IF created = "raised"
             THEN [chat EXCEPT !.received = Append(@, m),
                               !.username = Some(Strip(m)),
                               !.sent = "nothing"]
             ELSE [chat EXCEPT !.received = Append(@, m),
                               !.username = Some(Strip(m)),
                               !.auth_state = AUTH_STATE_PASSWORD,
                               !.sent = "password_prompt"]
  /\ UNCHANGED <<coreVars, rt>>

\* main -> handle_password_input(m.strip()); authenticated is the outcome of
\* session_manager.authenticate_session
PasswordInput(m, authenticated) ==
  /\ Receives(m, AUTH_STATE_PASSWORD)
  /\ chat' = IF Strip(m) # AUTH_PASSWORD
             THEN [chat EXCEPT !.received = Append(@, m),
                               !.sent = "password_prompt"]
             ELSE IF authenticated = "raised"
             THEN [chat EXCEPT !.received = Append(@, m), !.sent = "nothing"]
             ELSE [chat EXCEPT !.received = Append(@, m),
                               !.authenticated = "True",
                               !.auth_state = AUTH_STATE_AUTHENTICATED,
                               !.sent = "welcome"]
  /\ UNCHANGED <<coreVars, rt>>

\* main -> handle_query(m.strip()): chat_orchestrator.process_query is
\* called with the content; stored is the outcome of
\* session_manager.add_conversation
Query(m, stored) ==
  /\ Receives(m, AUTH_STATE_AUTHENTICATED)
  /\ chat' = [chat EXCEPT !.received = Append(@, m),
                          !.passed = Append(@, Strip(m)),
                          !.sent = IF stored = "raised" THEN "error" ELSE "feedback_prompt"]
  /\ UNCHANGED <<coreVars, rt>>

ChatNext ==
  \/ \E valid \in BOOLEAN : Start(valid)
  \/ \E m \in Messages, created \in ManagerOutcomes : UsernameInput(m, created)
  \/ \E m \in Messages, authenticated \in ManagerOutcomes : PasswordInput(m, authenticated)
  \/ \E m \in Messages, stored \in ManagerOutcomes : Query(m, stored)

ChatSpec == ChatInit /\ [][ChatNext]_vars

(***************************************************************************)
(* Properties                                                              *)
(***************************************************************************)
Count(name) == CopiesIn(name, calls)

\* specialist s was invoked / its call has begun
Started(s) == s \in running \cup settled

\* the needs-flag of s is present and true in the intent
FlagTrue(in, s) == FlagOf(s) \in DOMAIN in.d /\ Truthy(in.d[FlagOf(s)])

FlaggedSet(in) == {s \in Specialists : FlagTrue(in, s)}

ResultKeys == {"answer", "intent", "agent_responses", "success"}

\* C1: process_query never raises to its caller: whatever the classifier
\* answers and whichever capability or stage fails, no exception escapes, the
\* request is never stuck before its end, and it ends with a dictionary that
\* carries answer, intent, agent_responses and success.
C1_NeverRaises ==
  /\ ~escaped
  /\ pc # "done" => ENABLED Next
  /\ pc = "done" =>
       /\ DOMAIN result = ResultKeys
       /\ result # NoResult
       /\ result.success \in BOOLEAN
       /\ result.intent.kind = "dict"

\* an error raised inside dispatch or composition ended in a returned record
C1_Witness ==
  /\ pc = "done"
  /\ ~result.success
  /\ result.answer # NoText
  /\ settled # {}

\* the classifier's response is malformed: it does not parse, it parses to an
\* object that lacks a required key, or its fence is opened and never closed
FenceCount(text) == Cardinality({i \in 1..Len(text) : text[i] = "FENCE"})

Malformed(text) ==
  \/ json_loads(StripFence(text)).raised
  \/ /\ json_loads(StripFence(text)).value.kind = "dict"
     /\ ~(FlagKeys \subseteq DOMAIN json_loads(StripFence(text)).value.d)
  \/ FenceCount(text) % 2 = 1

\* C2: for every malformed classifier response _classify_intent returns
\* exactly the default intent (needs_sdk true, the other flags false, no
\* framework name).
C2_MalformedGivesDefault ==
  (pc = "classified" /\ ~llmOut.raised /\ Malformed(llmOut.value))
    => intent = DefaultIntent

\* C3: when the Classifier call itself raises, classification still returns
\* the default intent, the SDK agent is invoked exactly once, the framework
\* router and the code generator are not invoked, and process_query returns
\* the SDK agent's answer.
C3_ClassifierFailureContinues ==
  clsFailed =>
    /\ intent = DefaultIntent
    /\ ~escaped
    /\ Count("sdk_agent") <= 1
    /\ Count("framework_router") = 0
    /\ Count("code_generator") = 0
    /\ pc = "done" =>
         /\ Count("sdk_agent") = 1
         /\ result.success
         /\ DOMAIN result.agent_responses = {"sdk"}
         /\ result.answer = result.agent_responses["sdk"].answer

\* the classifier failed and the request ended with the SDK agent's text
C3_Witness ==
  /\ clsFailed
  /\ pc = "done"
  /\ Count("sdk_agent") = 1
  /\ result.answer = NotIndexedMsg

\* C4: the code generator starts only after every requested predecessor (SDK
\* agent, framework specialist) has settled; it never starts while one of
\* them is running or has not started.
C4_CodeGenAfterPredecessors ==
  Started("code") =>
    \A p \in {"sdk", "framework"} :
      /\ p \notin running
      /\ FlagTrue(intent, p) => p \in settled

\* the code generator runs after two predecessors settled, one of them failed
C4_Witness ==
  /\ "code" \in running
  /\ {"sdk", "framework"} \subseteq settled
  /\ ~responses["sdk"].success
  /\ responses["framework"].success

\* C5: whenever the intent requests code generation, the code generator is
\* invoked exactly once in the request, whatever the predecessors' outcome
\* and whatever framework name the classifier produced.
C5_CodeGenNeverSkipped ==
  (pc = "done" /\ FlagTrue(intent, "code")) => Count("code_generator") = 1

\* the context the claim prescribes for predecessor p: its answer when it was
\* invoked and succeeded, the empty string otherwise
ClaimedContext(p) ==
  IF p \in DOMAIN responses /\ responses[p].success
  THEN responses[p].answer ELSE NoText

\* C6: the context the code generator receives for a predecessor, and the
\* text substituted into its prompt, is the predecessor's answer when the
\* predecessor was invoked and succeeded and the empty string otherwise, never
\* null and never the predecessor's error text.
C6_ContextOnlyFromSuccess ==
  Started("code") =>
    /\ codeArgs.sdk_context = Some(ClaimedContext("sdk"))
    /\ codeArgs.framework_context = Some(ClaimedContext("framework"))
    /\ codePrompt.sdk_context = ClaimedContext("sdk")
    /\ codePrompt.framework_context = ClaimedContext("framework")

\* C7 as stated: when both are requested the two calls run concurrently, that
\* is, while the SDK agent's call is running the framework call need not wait
\* for it and can start.
C7_RunConcurrently ==
  (/\ FlagTrue(intent, "sdk") /\ FlagTrue(intent, "framework")
   /\ running = {"sdk"} /\ ~Started("framework"))
    => ENABLED (FwBegin \/ FwRouterError)

\* C7 amended: the two calls run one after the other: at most one specialist
\* call is running at any time, and the framework call starts only after the
\* SDK agent's call, if requested, has settled.
C7_RunSequentially ==
  /\ Cardinality(running) <= 1
  /\ Started("framework") =>
       /\ "sdk" \notin running
       /\ FlagTrue(intent, "sdk") => "sdk" \in settled

\* both were requested and the framework call runs after the SDK call settled
C7_Witness ==
  /\ FlagTrue(intent, "sdk") /\ FlagTrue(intent, "framework")
  /\ running = {"framework"}
  /\ "sdk" \in settled

\* C8: the keys of the map _route_to_agents returns are exactly the
\* specialists whose needs-flag is true; a specialist that failed keeps its
\* entry and no unrequested specialist has one.
C8_RouteKeysAreRequested ==
  /\ pc = "call" => DOMAIN responses \subseteq FlaggedSet(intent)
  /\ pc = "synth" => DOMAIN responses = FlaggedSet(intent)
  /\ (pc = "done" /\ result.success) =>
       DOMAIN result.agent_responses = FlaggedSet(intent)

\* route returned a map that holds the result of a failed specialist
C8_Witness ==
  /\ pc = "synth"
  /\ Cardinality(DOMAIN responses) = 2
  /\ \E s \in DOMAIN responses : ~responses[s].success
  /\ \E s \in DOMAIN responses : responses[s].success

\* C9: for an intent whose three needs-flags are all false, routing returns
\* the empty map without invoking a specialist or a capability, and the
\* composed text is the fixed apology.
C9_NoFlagsGivesApology ==
  (pc \in {"route", "call", "synth", "done"} /\ intent.kind = "dict"
     /\ FlaggedSet(intent) = {}) =>
    /\ pc # "call"
    /\ running = {} /\ settled = {}
    /\ responses = EmptyResponses
    /\ calls = CallOf("classifier")
    /\ pc = "done" =>
         /\ result.success
         /\ result.answer = Apology
         /\ result.agent_responses = EmptyResponses

\* a request with an intent that has no flag set ended
C9_Witness ==
  /\ pc = "done"
  /\ intent.kind = "dict"
  /\ FlaggedSet(intent) = {}
  /\ "needs_sdk" \in DOMAIN intent.d
  /\ result.answer = Apology

\* a labelled subsection of the code rendering, present only when body is
\* not empty
Subsection(label, body) ==
  IF body = NoText THEN NoText
  ELSE <<"**", label, ":", "**", "\n">> \o body \o <<"\n", "\n">>

\* the code generator's rendering: the fenced code, then the Explanation,
\* Estimated Cost and Gotchas subsections
CodeRendering(r) ==
  (IF r.code = NoText THEN NoText
   ELSE <<"FENCE", "python", "\n">> \o r.code \o <<"\n", "FENCE", "\n", "\n">>)
  \o Subsection("Explanation", r.explanation)
  \o Subsection("Estimated Cost", r.cost_estimate)
  \o Subsection("Gotchas", r.gotchas)

\* C10: when exactly one needs-flag is true, the composed text is that one
\* specialist's rendering with no header and no wrapping: the answer verbatim
\* for the SDK agent or the framework specialist, succeeded or failed, and the
\* code rendering for the code generator.
C10_SingleRendering ==
  (pc = "done" /\ result.success /\ Cardinality(FlaggedSet(intent)) = 1) =>
    /\ FlaggedSet(intent) = {"sdk"} =>
         result.answer = result.agent_responses["sdk"].answer
    /\ FlaggedSet(intent) = {"framework"} =>
         result.answer = result.agent_responses["framework"].answer
    /\ FlaggedSet(intent) = {"code"} =>
         result.answer = CodeRendering(result.agent_responses["code"])

\* a single failed framework specialist's warning is the final text
C10_Witness ==
  /\ pc = "done"
  /\ result.success
  /\ FlaggedSet(intent) = {"framework"}
  /\ ~result.agent_responses["framework"].success
  /\ result.answer = NoResultsMsg("generic")

\* the position in text of the header that ends with title (0 when absent)
HeaderPos(text, title) == Find(text, <<title, ":", "**", "\n">>)

\* the header titles of the composed text, per specialist
HeaderTitle(s) ==
  CASE s = "sdk" -> "SDK Agent Response"
    [] s = "framework" -> "Specialist Response"
    [] s = "code" -> "Code Generator Response"

\* body stands in text right after the header that ends with title
FollowsHeader(text, title, body) ==
  LET i == HeaderPos(text, title)
  IN /\ i # 0
     /\ SubSeq(text, i + 4, i + 3 + Len(body)) = body

\* C11: a composition of two or more results holds, for each result, its
\* header immediately followed by its rendering, in the order SDK agent,
\* framework specialist, code generator, and holds no header of a specialist
\* without a result; the SDK header precedes the code generator's header.
C11_FixedOrder ==
  (pc = "done" /\ result.success
     /\ Cardinality(DOMAIN result.agent_responses) >= 2) =>
    LET a == result.answer
        r == result.agent_responses
        at(s) == HeaderPos(a, HeaderTitle(s))
    IN /\ \A s \in Specialists : s \in DOMAIN r <=> at(s) # 0
       /\ \A s \in DOMAIN r : FollowsHeader(a, HeaderTitle(s), Rendering(r, s))
       /\ \A i, j \in 1..Len(RouteOrder) :
            (i < j /\ RouteOrder[i] \in DOMAIN r /\ RouteOrder[j] \in DOMAIN r)
              => at(RouteOrder[i]) < at(RouteOrder[j])

\* the results of all three specialists were composed
C11_Witness ==
  /\ pc = "done" /\ result.success
  /\ DOMAIN result.agent_responses = Specialists
  /\ result.agent_responses["sdk"].success
  /\ result.agent_responses["code"].success
  /\ HeaderPos(result.answer, "SDK Agent Response") # 0
  /\ HeaderPos(result.answer, "SDK Agent Response")
       < HeaderPos(result.answer, "Code Generator Response")

\* the source lists of a result map; a result without sources gives none
SourcesOf(r, s) ==
  IF s \in DOMAIN r /\ "sources" \in DOMAIN r[s] THEN r[s].sources ELSE <<>>

\* the i-th citation line of the SDK agent, of the framework specialist
SdkLine(src, i) == <<ToString(i), ".", "Page", src.page, "\n">>
FwLine(src, i) == <<ToString(i), ".", "[", src.title, "]", "(", src.url, ")", "\n">>

SdkSourcesTitle == <<"**", "SDK Documentation Sources", ":", "**", "\n">>
FwSourcesTitle == <<"**", "Framework Sources", ":", "**", "\n">>

\* the Sources section the claim prescribes: the first three SDK sources, then
\* the first three framework sources, each list under its title and only when
\* it is not empty
RECURSIVE ClaimedLines(_, _, _, _)
ClaimedLines(srcs, i, n, kind) ==
  IF i > n \/ i > Len(srcs) THEN NoText
  ELSE (IF kind = "sdk" THEN SdkLine(srcs[i], i) ELSE FwLine(srcs[i], i))
         \o ClaimedLines(srcs, i + 1, n, kind)

ClaimedSources(r) ==
  (IF SourcesOf(r, "sdk") = <<>> THEN NoText
   ELSE SdkSourcesTitle \o ClaimedLines(SourcesOf(r, "sdk"), 1, 3, "sdk") \o <<"\n">>)
  \o (IF SourcesOf(r, "framework") = <<>> THEN NoText
      ELSE FwSourcesTitle \o ClaimedLines(SourcesOf(r, "framework"), 1, 3, "framework")
             \o <<"\n">>)

\* text ends with suffix
EndsWith(text, suffix) ==
  /\ Len(suffix) <= Len(text)
  /\ SubSeq(text, Len(text) - Len(suffix) + 1, Len(text)) = suffix

\* C12: a composition of two or more results ends with the Sources section:
\* at most the first 3 SDK sources in their order, then at most the first 3
\* framework sources in their order; a fourth source is never cited, an empty
\* list contributes neither title nor line, and the code generator
\* contributes nothing.
C12_SourcesSection ==
  (pc = "done" /\ result.success
     /\ Cardinality(DOMAIN result.agent_responses) >= 2) =>
    LET a == result.answer
        r == result.agent_responses
        ss == SourcesOf(r, "sdk")
        fs == SourcesOf(r, "framework")
    IN /\ EndsWith(a, ClaimedSources(r))
       /\ Contains(a, SdkSourcesTitle) <=> ss # <<>>
       /\ Contains(a, FwSourcesTitle) <=> fs # <<>>
       /\ \A i \in 1..Len(ss) : Contains(a, SdkLine(ss[i], i)) <=> i <= 3
       /\ \A i \in 1..Len(fs) : Contains(a, FwLine(fs[i], i)) <=> i <= 3
       /\ (ss # <<>> /\ fs # <<>>) =>
            Find(a, SdkSourcesTitle) < Find(a, FwSourcesTitle)
       /\ SourcesOf(r, "code") = <<>>

\* a composition in which both specialists returned more than three sources
\* next to a code generator result
C12_Witness ==
  /\ pc = "done" /\ result.success
  /\ DOMAIN result.agent_responses = Specialists
  /\ Len(SourcesOf(result.agent_responses, "sdk")) > 3
  /\ Len(SourcesOf(result.agent_responses, "framework")) > 3
  /\ Contains(result.answer, SdkSourcesTitle)
  /\ Contains(result.answer, FwSourcesTitle)

\* the names of the framework-specific variants of the registry
FrameworkNames == Registry \ {"generic"}

\* v names a framework-specific variant, whatever its letter case
IsRegistryName(v) == v.t = "str" /\ Lower(v.s) \in FrameworkNames

\* the variant that produced a framework result: its name is the framework
\* field, or the name in the warning of a result without that field
VariantOf(r) == IF "framework" \in DOMAIN r THEN r.framework ELSE r.answer[2]

\* C13: for every framework name that is not a registry name (an unknown
\* name, the empty string, an absent name, any other value the classifier
\* produced), the lookup of the framework router raises nothing, so the call
\* reaches a specialist, and the specialist it selects is the generic variant.
C13_UnknownNameSelectsGeneric ==
  (/\ intent.kind = "dict"
   /\ Count("framework_router") > 0
   /\ ~IsRegistryName(FrameworkArg(intent))) =>
    /\ Started("framework")
    /\ "framework" \in DOMAIN responses => VariantOf(responses["framework"]) = "generic"

\* C14: when the index is ready and the similarity search returns no passage,
\* the SDK agent's result is success = false with the fixed "no relevant
\* information" message and no sources, and the generator was not invoked in
\* that call.
C14_NoPassagesNoGenerator ==
  (seen.ready = "ready" /\ seen.passages = "0") =>
    /\ "sdk" \in settled
    /\ responses["sdk"] =
         [answer |-> NoInfoMsg, sources |-> <<>>, success |-> FALSE]
    /\ Count("retriever") = 1
    /\ Count("gen_sdk") = 0

\* the SDK agent's call on a ready index found nothing and the request went on
C14_Witness ==
  /\ seen.ready = "ready" /\ seen.passages = "0"
  /\ pc = "done" /\ result.success
  /\ result.agent_responses["sdk"].answer = NoInfoMsg

\* C15: when the index is not ready, the SDK agent's result is success =
\* false with the fixed "not yet indexed" message and no sources, and neither
\* the similarity search nor the generator was invoked in that call.
C15_NotReadyReturnsAtOnce ==
  seen.ready = "notready" =>
    /\ "sdk" \in settled
    /\ responses["sdk"] =
         [answer |-> NotIndexedMsg, sources |-> <<>>, success |-> FALSE]
    /\ seen.passages = "uncalled"
    /\ Count("is_indexed") = 1
    /\ Count("retriever") = 0
    /\ Count("gen_sdk") = 0

\* the SDK agent's call met an index that is not ready and the request went on
C15_Witness ==
  /\ seen.ready = "notready"
  /\ pc = "done" /\ result.success
  /\ result.agent_responses["sdk"].answer = NotIndexedMsg

\* C16: when the web search yields no hit, the client's failure included (it
\* is turned into an empty hit list), the framework specialist's result is
\* success = false with the quota warning and no sources, nothing is raised,
\* and the generator's synthesis call was not made.
C16_NoHitsNoSynthesis ==
  seen.hits \in {"0", "raised"} =>
    /\ "framework" \in settled
    /\ \E name \in Registry :
         responses["framework"] =
           [answer |-> NoResultsMsg(name), sources |-> <<>>, success |-> FALSE]
    /\ Count("websearch") = 1
    /\ Count("gen_framework") = 0
    /\ ~escaped

\* the search client failed inside the framework specialist's call and the
\* request ended with the specialist's warning in its result
C16_Witness ==
  /\ seen.hits = "raised"
  /\ pc = "done" /\ result.success
  /\ ~result.agent_responses["framework"].success
  /\ result.agent_responses["framework"].answer = NoResultsMsg("langchain")

CodeFields == {"code", "explanation", "cost_estimate", "gotchas"}

\* C17: a call of the code generator invokes the generator exactly once; when
\* that call returns, the result is success = true with the four fields
\* extracted from the returned text; when it fails, the result is success =
\* false with the inline error comment as code and the other three fields
\* empty, and nothing is raised.
C17_GenerateOnceAndReport ==
  seen.codegen.called =>
    /\ "code" \in settled
    /\ ~escaped
    /\ Count("gen_code") = 1
    /\ DOMAIN responses["code"] = CodeFields \cup {"success"}
    /\ responses["code"].success = ~seen.codegen.out.raised
    /\ seen.codegen.out.raised =>
         /\ responses["code"].code = <<"# Error generating code:", seen.codegen.out.exc.msg>>
         /\ \A f \in CodeFields \ {"code"} : responses["code"][f] = NoText
    /\ ~seen.codegen.out.raised =>
         [f \in CodeFields |-> responses["code"][f]]
           = parse_response(seen.codegen.out.value)

\* the generator failed inside the code generator's call and the request
\* ended with the error comment in the code field
C17_Witness ==
  /\ seen.codegen.called /\ seen.codegen.out.raised
  /\ pc = "done" /\ result.success
  /\ ~result.agent_responses["code"].success
  /\ result.agent_responses["code"].explanation = NoText

\* the generator's call returned and the code generator reported success
C17_WitnessReturned ==
  /\ seen.codegen.called /\ ~seen.codegen.out.raised
  /\ pc = "done"
  /\ responses["code"].success
  /\ responses["code"].gotchas # NoText

\* a python-tagged fenced block followed by the three labelled sections
LabelledText ==
  <<"FENCE", "python", "\n", "print(1)", "\n", "FENCE", "\n",
    "**", "Explanation", ":", "**", "\n", "Prints one.", "\n",
    "**", "Estimated Cost", ":", "**", "\n", "Free", "\n",
    "**", "Gotchas", ":", "**", "\n", "None.">>

\* the tokens labels and fences are made of
MarkupTokens == {"FENCE", "python", "**", ":", "Explanation", "Estimated Cost", "Gotchas"}

\* text holds none of the markup tokens
NoMarkup(text) == \A i \in 1..Len(text) : text[i] \notin MarkupTokens

\* C18: from a python-tagged fenced block holding print(1) followed by the
\* labels Explanation, Estimated Cost and Gotchas with the bodies "Prints
\* one.", "Free" and "None.", the code generator extracts code = print(1),
\* explanation = "Prints one.", cost_estimate = "Free", gotchas = "None.",
\* and no field holds label or fence text.
C18_LabelledTextExtracted ==
  (seen.codegen.called /\ seen.codegen.out = Return(LabelledText)) =>
    /\ responses["code"].code = <<"print(1)">>
    /\ responses["code"].explanation = <<"Prints one.">>
    /\ responses["code"].cost_estimate = <<"Free">>
    /\ responses["code"].gotchas = <<"None.">>
    /\ \A f \in CodeFields : NoMarkup(responses["code"][f])

\* the generator returned the labelled text to the code generator
C18_Witness ==
  /\ seen.codegen.called
  /\ seen.codegen.out = Return(LabelledText)
  /\ "code" \in settled
  /\ responses["code"].code = <<"print(1)">>

\* the label name of each section field
LabelOf(f) ==
  CASE f = "explanation" -> "Explanation"
    [] f = "cost_estimate" -> "Estimated Cost"
    [] f = "gotchas" -> "Gotchas"

SectionFields == {"explanation", "cost_estimate", "gotchas"}

\* some spelling of the label of f occurs in text
LabelPresent(text, f) ==
  \E k \in 1..3 : Contains(text, Markers(LabelOf(f))[k])

\* text after the first occurrence of sub
After(text, sub) == SubSeq(text, Find(text, sub) + Len(sub), Len(text))

\* the value the claim prescribes for field f: from right after the first
\* accepted label of f to the nearest following label of another field, or
\* to the end of the text, trimmed
ClaimedSection(text, f) ==
  LET ms == Markers(LabelOf(f))
      k == CHOOSE k \in 1..3 :
             /\ Contains(text, ms[k])
             /\ \A j \in 1..3 : Contains(text, ms[j]) => k <= j
      rest == After(text, ms[k])
      stops == {Find(rest, Markers(LabelOf(g))[j]) :
                  g \in SectionFields \ {f}, j \in 1..3} \ {0}
  IN IF stops = {} THEN Strip(rest)
     ELSE Strip(SubSeq(rest, 1, (CHOOSE i \in stops : \A j \in stops : i <= j) - 1))

\* C19: for every text the generator returns and every field whose label is
\* present, the extracted value is the trimmed text from right after the
\* field's first accepted label to the nearest following label of another
\* field, or to the end of the text: it is cut nowhere else and never runs
\* past another field's label, in whatever order the sections appear.
C19_SectionEndsAtNearestLabel ==
  (seen.codegen.called /\ ~seen.codegen.out.raised) =>
    \A f \in SectionFields :
      LabelPresent(seen.codegen.out.value, f) =>
        responses["code"][f] = ClaimedSection(seen.codegen.out.value, f)

\* text holds no complete fenced block: no fence at all, or a single fence
\* that has no python tag
NoFencedBlock(text) ==
  \/ FenceCount(text) = 0
  \/ FenceCount(text) = 1 /\ ~Contains(text, FencePython)

\* C20: for every text the generator returns that holds no complete fenced
\* block, the code field is the empty string; the code field is never the
\* whole text.
C20_NoFenceGivesEmptyCode ==
  (/\ seen.codegen.called /\ ~seen.codegen.out.raised
   /\ NoFencedBlock(seen.codegen.out.value)) =>
    responses["code"].code = NoText

\* text holds no recognized label: no fence and no spelling of a section label
NoLabels(text) ==
  /\ FenceCount(text) = 0
  /\ \A f \in SectionFields : ~LabelPresent(text, f)

\* C21: the extraction always returns the four fields code, explanation,
\* cost_estimate and gotchas as strings; a section field none of whose labels
\* occurs in the text is the empty string, and for a text that holds no
\* recognized label all four fields are the empty string.
C21_AbsentLabelGivesEmptyField ==
  (seen.codegen.called /\ ~seen.codegen.out.raised) =>
    /\ CodeFields \subseteq DOMAIN responses["code"]
    /\ \A f \in SectionFields :
         ~LabelPresent(seen.codegen.out.value, f) => responses["code"][f] = NoText
    /\ NoLabels(seen.codegen.out.value) =>
         \A f \in CodeFields : responses["code"][f] = NoText

\* the errors that escape dispatch or composition in the model
EscapingErrors ==
  { Exc("AttributeError", "object has no attribute 'get'"),
    NormalizeFramework(JNum("42")).exc,
    Capitalize(JNull).exc }

\* C22: when an error escapes dispatch or composition, the request returns
\* success = false with one fixed message: the final text is the text every
\* other escaping error gives, it does not depend on the error's content.
C22_FixedErrorText ==
  (pc = "done" /\ ~escaped /\ ~result.success) =>
    \A e \in EscapingErrors : result.answer = OrchestratorErrorMsg(e)

\* the capabilities a request may call
Capabilities ==
  {"classifier", "is_indexed", "retriever", "gen_sdk", "websearch",
   "gen_framework", "gen_code"}

\* the text of a specialist's result that the final text shows
ShownText(r, s) == IF s = "code" THEN r[s].code ELSE AnswerOf(r, s)

\* C23: nothing is retried within one request: the classifier, the
\* similarity search, the web search and each specialist's generator are
\* called at most once, also after a failure; a specialist that failed has a
\* success = false result, the request is not aborted and the final text
\* holds the failure's text.
C23_NoRetryFailureShown ==
  /\ \A c \in Capabilities : Count(c) <= 1
  /\ \A s \in Specialists : Count(IF s = "sdk" THEN "sdk_agent"
                                    ELSE IF s = "framework" THEN "framework_router"
                                    ELSE "code_generator") <= 1
  /\ \A s \in settled : s \in DOMAIN responses
  /\ pc = "done" =>
       \A s \in settled :
         ~responses[s].success =>
           /\ result.success
           /\ s \in DOMAIN result.agent_responses
           /\ ~result.agent_responses[s].success
           /\ Contains(result.answer, ShownText(result.agent_responses, s))

\* C24: every result a specialist produced with success = false has an
\* answer that is a non-empty message and a sources list that is empty.
C24_FailureHasMessageNoSources ==
  \A s \in DOMAIN responses :
    ~responses[s].success =>
      /\ "answer" \in DOMAIN responses[s]
      /\ responses[s].answer # NoText
      /\ "sources" \in DOMAIN responses[s]
      /\ responses[s].sources = <<>>

\* s without its leading and trailing whitespace
Trim(s) == IF s = " langchain " THEN "langchain" ELSE s

\* the variant the claim prescribes for a name: the registry entry of the
\* name case-folded and trimmed, the generic variant on a miss
ClaimedVariant(v) ==
  IF v.t = "str" /\ Lower(Trim(v.s)) \in Registry THEN Lower(Trim(v.s)) ELSE "generic"

\* C25: the lookup case-folds and trims the name before it consults the
\* registry: names that differ only in letter case or in leading or trailing
\* whitespace ("LangChain", " langchain ", "langchain") select the same
\* variant.
C25_NameIsFoldedAndTrimmed ==
  (/\ intent.kind = "dict"
   /\ "framework" \in DOMAIN responses
   /\ FrameworkArg(intent).t = "str") =>
    VariantOf(responses["framework"]) = ClaimedVariant(FrameworkArg(intent))

\* C26: for every intent that requests the framework specialist together
\* with at least one other specialist, the request returns success = true
\* with a composed multi-agent text, whatever the framework name is, a name
\* that is present with value null or absent included: building the framework
\* header never raises.
C26_FrameworkHeaderNeverRaises ==
  (/\ pc = "done"
   /\ intent.kind = "dict"
   /\ FlagTrue(intent, "framework")
   /\ Cardinality(FlaggedSet(intent)) >= 2) =>
    /\ result.success
    /\ HeaderPos(result.answer, "Multi-Agent Response") = 2
    /\ HeaderPos(result.answer, "Specialist Response") # 0

\* an error escapes dispatch or composition for this intent: the intent is
\* not an object, the framework router is called with a name it cannot
\* lower-case, or a composition is built with a name it cannot capitalize
ErrorEscapes(in) ==
  \/ in.kind # "dict"
  \/ /\ FlagTrue(in, "framework")
     /\ NormalizeFramework(FrameworkArg(in)).raised
  \/ /\ FlagTrue(in, "framework")
     /\ Cardinality(FlaggedSet(in)) >= 2
     /\ Capitalize(Get(in.d, "framework_name", JStr("framework"))).raised

\* C28: the success flag process_query returns is false exactly when an
\* error escaped classification, dispatch or composition, and then the
\* returned intent and agent_responses are both empty; the specialists'
\* outcomes do not affect it: it is true also when every invoked specialist
\* returned success = false.
C28_SuccessFlagMeansNoEscape ==
  pc = "done" =>
    /\ ~escaped
    /\ result.success <=> ~ErrorEscapes(intent)
    /\ ~result.success =>
         /\ result.intent = PyDict(EmptyDict)
         /\ result.agent_responses = EmptyResponses
    /\ result.success =>
         /\ result.intent = intent
         /\ result.agent_responses = responses

\* a request ended with success = true although both invoked specialists
\* failed
C28_Witness ==
  /\ pc = "done"
  /\ result.success
  /\ Cardinality(DOMAIN result.agent_responses) = 2
  /\ \A s \in DOMAIN result.agent_responses : ~result.agent_responses[s].success

\* a request ended with success = false after a specialist had settled
C28_WitnessEscaped ==
  /\ pc = "done"
  /\ ~result.success
  /\ settled # {}
  /\ result.agent_responses = EmptyResponses

\* C27: for every code generator result whose four fields are trimmed texts
\* without fence, label or bold markup, the extraction applied to the
\* renderer's output returns the same four field values, an empty field
\* coming back empty.
C27_RenderThenExtract ==
  rt.stage = "extracted" => rt.back = rt.fields

\* the content of the message the step has just received
LastReceived == chat'.received[Len(chat'.received)]

\* one step of the chat session obeys the gate
GateStep ==
  /\ chat'.passed # chat.passed =>
       /\ chat.auth_state = AUTH_STATE_AUTHENTICATED
       /\ chat'.passed = Append(chat.passed, Strip(LastReceived))
  /\ chat.auth_state = AUTH_STATE_AUTHENTICATED =>
       chat'.auth_state = AUTH_STATE_AUTHENTICATED
  /\ (chat'.auth_state = AUTH_STATE_AUTHENTICATED
        /\ chat.auth_state # AUTH_STATE_AUTHENTICATED) =>
       /\ chat.auth_state = AUTH_STATE_PASSWORD
       /\ Strip(LastReceived) = AUTH_PASSWORD
  /\ (chat'.auth_state = AUTH_STATE_PASSWORD
        /\ chat.auth_state # AUTH_STATE_PASSWORD) =>
       /\ AuthState(chat) = AUTH_STATE_USERNAME
       /\ Len(Strip(LastReceived)) >= 2
  /\ (chat.auth_state = AUTH_STATE_PASSWORD
        /\ chat'.received # chat.received
        /\ Strip(LastReceived) # AUTH_PASSWORD) =>
       chat'.auth_state = AUTH_STATE_PASSWORD

\* the session is authenticated only with a username of two characters or
\* more on record, submitted before the password
GateState ==
  /\ chat.passed # <<>> => chat.auth_state = AUTH_STATE_AUTHENTICATED
  /\ chat.auth_state \in {AUTH_STATE_PASSWORD, AUTH_STATE_AUTHENTICATED} =>
       /\ ~chat.username.none
       /\ Len(chat.username.text) >= 2
  /\ chat.auth_state = AUTH_STATE_AUTHENTICATED =>
       \E i, j \in 1..Len(chat.received) :
         /\ i < j
         /\ Len(Strip(chat.received[i])) >= 2
         /\ Strip(chat.received[j]) = AUTH_PASSWORD
         /\ chat.username.text = Strip(chat.received[i])

\* C29: over any sequence of messages of a session, a message is handed to
\* process_query only in the state authenticated; that state is reached only
\* from awaiting_password by a message whose content is the configured
\* password, after a username of at least 2 characters was submitted; a wrong
\* password leaves the state at awaiting_password, and the state never
\* leaves authenticated.
C29_AuthenticationGate == [][GateStep]_vars /\ []GateState

\* a query was handed to process_query in a session that saw a wrong
\* password first
C29_Witness ==
  /\ chat.auth_state = AUTH_STATE_AUTHENTICATED
  /\ chat.received =
       << <<" ", "b", "o", " ">>, <<"h", "i", "?">>, AUTH_PASSWORD, <<"h", "i", "?">> >>
  /\ chat.username = Some(<<"b", "o">>)
  /\ chat.passed = << <<"h", "i", "?">> >>

\* C30: when configuration validation fails at chat start, no later message
\* of the session starts the authentication flow or reaches process_query:
\* the session never leaves its unset state, records no username and hands
\* no query to the orchestrator.
C30_ConfigFailureBlocksSession ==
  (chat.started /\ ~chat.config_valid) =>
    /\ chat.auth_state = Unset
    /\ chat.username = None
    /\ chat.authenticated = Unset
    /\ chat.sent \notin {"username_prompt", "password_prompt", "welcome"}
    /\ chat.passed = <<>>

====
